---- MODULE Spec2Model ----
(***************************************************************************)
(* A model of the automation scripts of plataforma-aprendizaje: the web    *)
(* captures organizer (capture_processor.py), its folder monitors          *)
(* (watch_folder.py, auto_monitor.py) and the Downloads organizer          *)
(* (organize_downloads.py, organize_downloads_auto.py).                    *)
(*                                                                         *)
(* Texts, file names, URLs and category names are TLA+ strings; the string *)
(* functions of the code (lower, in, strip, splitext, the two regular      *)
(* expressions of extract_urls) are computed character by character.       *)
(* Category names are written without accents (Educacion, Imagenes,        *)
(* "Sin categoria").                                                       *)
(***************************************************************************)
EXTENDS Integers, Sequences, FiniteSets, TLC

VARIABLES
    \* ---- web captures organizer ----
    dir,              \* input/: file name -> NoFile or [mtime, content]
    store,            \* .processed_files.json on disk: [kind, table]
    processed_files,  \* CaptureProcessor.processed_files (in memory)
    ocr_available,    \* CaptureProcessor.ocr_available
    report,           \* resources.md: NoReport or [total, buckets]
    pc,               \* position of process_captures
    image_files,      \* process_captures: image_files
    new_files,        \* process_captures: new_files
    idx,              \* process_captures: index into new_files
    extracted_text,   \* process_captures: extracted_text of new_files[idx]
    outcome,          \* how the last run of process_captures ended
    envLeft,          \* changes the environment may still make
    calm,             \* history: "dirty", "sinceStart" or "sinceEnd"
    cleared,          \* history: clear_cache removed the store, no run since
    \* ---- pure functions, applied to drawn inputs ----
    fn_in,            \* the input drawn: [op, ext, text, urls]
    fn_out,           \* the results: [interactive, auto, category]
    \* ---- Downloads organizer ----
    script,           \* which of the two organizers runs
    modo_prueba,      \* organizar_archivos: modo_prueba
    downloads,        \* Downloads: [exists, files: file name -> content]
    carpetas,         \* category folder -> (entry name -> content)
    items,            \* organizar_archivos: entries of items still to visit
    contadores,       \* organizar_archivos: contadores, category -> count
    org_pc,           \* position of organizar_archivos
    historia,         \* history: [corrida, listada, fallidos, tras_real]
    \* ---- folder watchers ----
    watcher,          \* which monitor runs: watch_folder or auto_monitor
    mode,             \* "event" (watchdog) or "polling"
    now,              \* time.time(), in seconds
    processing,       \* the handler's processing flag
    last_process_time,\* ImageFileHandler.last_process_time
    last_event_time,  \* ImageWatcher.last_event_time
    cb,               \* the handler callbacks in progress, one per thread
    last_trigger,     \* history: arrival time of the last event that ran
    input_files,      \* polling: the images now in input/, name -> mtime
    last_files,       \* polling: last_files
    poll              \* polling: position and locals of the loop

capVars == <<dir, store, processed_files, ocr_available, report, pc,
             image_files, new_files, idx, extracted_text, outcome, envLeft,
             calm, cleared>>
fnVars == <<fn_in, fn_out>>
orgVars == <<script, modo_prueba, downloads, carpetas, items, contadores,
             org_pc, historia>>
watchVars == <<watcher, mode, now, processing, last_process_time,
               last_event_time, cb, last_trigger, input_files, last_files,
               poll>>
vars == <<capVars, fnVars, orgVars, watchVars>>

-----------------------------------------------------------------------------
(* Strings *)

\* Python's s[i-1:j]: the characters i..j of s, cut to the length of s
Slice(s, i, j) ==
    IF i < 1 \/ i > j \/ i > Len(s) THEN ""
    ELSE SubSeq(s, i, IF j > Len(s) THEN Len(s) ELSE j)

Char(s, i) == Slice(s, i, i)

UpperAlpha == "ABCDEFGHIJKLMNOPQRSTUVWXYZ"
LowerAlpha == "abcdefghijklmnopqrstuvwxyz"
Digits == "0123456789"

CharsOf(s) == {Char(s, i) : i \in 1..Len(s)}

UpperSet == CharsOf(UpperAlpha)
LowerSet == CharsOf(LowerAlpha)
DigitSet == CharsOf(Digits)
LetterSet == UpperSet \cup LowerSet

\* str.lower() of one character
LowerChar(c) ==
    IF c \in UpperSet
    THEN Char(LowerAlpha, CHOOSE i \in 1..26 : Char(UpperAlpha, i) = c)
    ELSE c

\* str.upper() of one character
UpperChar(c) ==
    IF c \in LowerSet
    THEN Char(UpperAlpha, CHOOSE i \in 1..26 : Char(LowerAlpha, i) = c)
    ELSE c

RECURSIVE str_lower(_)
str_lower(s) ==
    IF s = "" THEN ""
    ELSE LowerChar(Char(s, 1)) \o str_lower(Slice(s, 2, Len(s)))

RECURSIVE str_upper(_)
str_upper(s) ==
    IF s = "" THEN ""
    ELSE UpperChar(Char(s, 1)) \o str_upper(Slice(s, 2, Len(s)))

\* Python's `sub in s`
str_in(sub, s) ==
    \E i \in 1..(Len(s) - Len(sub) + 1) :
        /\ Char(s, i) = Char(sub, 1)
        /\ Slice(s, i, i + Len(sub) - 1) = sub

startswith(s, prefix) ==
    /\ Len(prefix) <= Len(s)
    /\ Slice(s, 1, Len(prefix)) = prefix

endswith(s, suffix) ==
    /\ Len(suffix) <= Len(s)
    /\ Slice(s, Len(s) - Len(suffix) + 1, Len(s)) = suffix

\* the whitespace of the texts of the model
IsSpace(c) == c = " "

RECURSIVE lstrip(_)
lstrip(s) ==
    IF s # "" /\ IsSpace(Char(s, 1)) THEN lstrip(Slice(s, 2, Len(s))) ELSE s

RECURSIVE rstrip(_)
rstrip(s) ==
    IF s # "" /\ IsSpace(Char(s, Len(s)))
    THEN rstrip(Slice(s, 1, Len(s) - 1)) ELSE s

str_strip(s) == lstrip(rstrip(s))

\* Python's None, where the code passes a text or None
None == "<None>"

\* Python's truth value of a text or None
Truthy(text) == text # None /\ text # ""
-----------------------------------------------------------------------------
(* CaptureProcessor.extract_urls *)

\* the end (exclusive) of the longest run of characters of S that starts at i
RunEnd(s, i, S) ==
    CHOOSE j \in i..(Len(s) + 1) :
        /\ \A k \in i..(j - 1) : Char(s, k) \in S
        /\ j = Len(s) + 1 \/ Char(s, j) \notin S

\* the end (exclusive) of the longest run of [^\s] that starts at i
NonSpaceEnd(s, i) ==
    CHOOSE j \in i..(Len(s) + 1) :
        /\ \A k \in i..(j - 1) : ~IsSpace(Char(s, k))
        /\ j = Len(s) + 1 \/ IsSpace(Char(s, j))

HasAt(s, i, lit) == Slice(s, i, i + Len(lit) - 1) = lit

\* [a-zA-Z] | [0-9] | [$-_@.&+] | [!*\\(\\),] : the range $-_ is 0x24..0x5F
UrlCharSet ==
    LetterSet \cup DigitSet
        \cup CharsOf("$%&'()*+,-./:;<=>?@[]^_") \cup CharsOf("!*(),") \cup {"\\"}

\* url_pattern at position i: the end (exclusive) of the match, 0 when none
UrlMatchEnd(s, i) ==
    IF ~HasAt(s, i, "http") THEN 0
    ELSE LET j == IF HasAt(s, i + 4, "s") /\ HasAt(s, i + 5, "://")
                  THEN i + 8
                  ELSE IF HasAt(s, i + 4, "://") THEN i + 7 ELSE 0
         IN  IF j = 0 THEN 0
             ELSE LET e == RunEnd(s, j, UrlCharSet)
                  IN  IF e > j THEN e ELSE 0

LabelCharSet == LetterSet \cup DigitSet \cup {"-"}

\* [a-zA-Z0-9-]+\.[a-zA-Z]{2,}(?:/[^\s]*)? at position i
DomainCoreEnd(s, i) ==
    LET k == RunEnd(s, i, LabelCharSet)
    IN  IF k = i \/ ~HasAt(s, k, ".") THEN 0
        ELSE LET e == RunEnd(s, k + 1, LetterSet)
             IN  IF e - (k + 1) < 2 THEN 0
                 ELSE IF HasAt(s, e, "/") THEN NonSpaceEnd(s, e + 1) ELSE e

\* domain_pattern at position i: (?:www\.)? is tried first, then left out
DomainMatchEnd(s, i) ==
    IF HasAt(s, i, "www.") /\ DomainCoreEnd(s, i + 4) # 0
    THEN DomainCoreEnd(s, i + 4)
    ELSE DomainCoreEnd(s, i)

\* re.findall: leftmost matches, not overlapping, as a list
RECURSIVE FindAllUrls(_, _)
FindAllUrls(s, i) ==
    IF i > Len(s) THEN <<>>
    ELSE LET e == UrlMatchEnd(s, i)
         IN  IF e = 0 THEN FindAllUrls(s, i + 1)
             ELSE <<Slice(s, i, e - 1)>> \o FindAllUrls(s, e)

RECURSIVE FindAllDomains(_, _)
FindAllDomains(s, i) ==
    IF i > Len(s) THEN <<>>
    ELSE LET e == DomainMatchEnd(s, i)
         IN  IF e = 0 THEN FindAllDomains(s, i + 1)
             ELSE <<Slice(s, i, e - 1)>> \o FindAllDomains(s, e)

Range(q) == {q[i] : i \in 1..Len(q)}

\* extract_urls with url_pattern alone: a domain without a protocol is missed
extract_urls_with_protocol(text) ==
    IF ~Truthy(text) THEN {}
    ELSE Range(FindAllUrls(text, 1))

\* list(set(...)): the order of the list is not determined, so it is a set
extract_urls(text) ==
    IF ~Truthy(text) THEN {}
    ELSE LET urls == FindAllUrls(text, 1)
             domains == FindAllDomains(text, 1)
         IN  Range(urls) \cup
             {IF startswith(d, "http") THEN d ELSE "https://" \o d :
                 d \in Range(domains)}

-----------------------------------------------------------------------------
(* CaptureProcessor.categorize_content *)

\* CATEGORIES, in the order of the dict
CATEGORIES == <<
    [name |-> "Redes Sociales",
     keywords |-> <<"twitter", "facebook", "instagram", "linkedin", "tiktok",
                    "reddit", "social">>],
    [name |-> "Desarrollo",
     keywords |-> <<"github", "stackoverflow", "code", "python", "javascript",
                    "programming", "dev", "api">>],
    [name |-> "Noticias",
     keywords |-> <<"news", "article", "blog", "post", "medium", "noticia">>],
    [name |-> "Compras",
     keywords |-> <<"amazon", "ebay", "shop", "buy", "cart", "price", "compra",
                    "tienda">>],
    [name |-> "Productividad",
     keywords |-> <<"notion", "trello", "asana", "calendar", "task", "todo",
                    "meeting">>],
    [name |-> "Educacion",
     keywords |-> <<"course", "tutorial", "learn", "education", "udemy",
                    "coursera", "clase">>],
    [name |-> "Entretenimiento",
     keywords |-> <<"youtube", "netflix", "spotify", "music", "video",
                    "stream">>],
    [name |-> "Finanzas",
     keywords |-> <<"bank", "payment", "invoice", "finance", "money", "precio",
                    "pago">>] >>

SinCategoria == "Sin categoria"
Otros == "Otros"

\* ' '.join(urls), in some order of the list
RECURSIVE JoinUrls(_)
JoinUrls(urls) ==
    IF urls = {} THEN ""
    ELSE LET u == CHOOSE x \in urls : TRUE
         IN  IF urls = {u} THEN u ELSE u \o " " \o JoinUrls(urls \ {u})

\* content = (text or '').lower() + ' ' + ' '.join(urls or []).lower()
ContentOf(text, urls) ==
    str_lower(IF Truthy(text) THEN text ELSE "") \o " "
        \o str_lower(JoinUrls(urls))

\* content.count(sub) for a keyword: the places where sub occurs in s
Occurrences(sub, s) ==
    Cardinality({i \in 1..(Len(s) - Len(sub) + 1) : HasAt(s, i, sub)})

\* scores[category] += content.count(keyword): one per occurrence
RECURSIVE KeywordOccurrences(_, _, _)
KeywordOccurrences(keywords, k, content) ==
    IF k > Len(keywords) THEN 0
    ELSE Occurrences(str_lower(keywords[k]), content)
         + KeywordOccurrences(keywords, k + 1, content)

\* scores[category] after the two loops: one per keyword found in content
RECURSIVE KeywordHits(_, _, _)
KeywordHits(keywords, k, content) ==
    IF k > Len(keywords) THEN 0
    ELSE (IF str_in(str_lower(keywords[k]), content) THEN 1 ELSE 0)
         + KeywordHits(keywords, k + 1, content)

\* max(scores.items(), key=...)[0]: the first maximum, in insertion order,
\* among the categories that scored; best is the index found so far (0: none)
RECURSIVE MaxScore(_, _, _)
MaxScore(scores, i, best) ==
    IF i > Len(scores) THEN best
    ELSE IF scores[i] > 0 /\ (best = 0 \/ scores[i] > scores[best])
         THEN MaxScore(scores, i + 1, i)
         ELSE MaxScore(scores, i + 1, best)

\* categorize_content without its first test: no text and no URL fall through
\* to the scores
categorize_content_no_empty_test(text, urls) ==
    LET content == ContentOf(text, urls)
        scores == [i \in 1..Len(CATEGORIES) |->
                      KeywordHits(CATEGORIES[i].keywords, 1, content)]
        best == MaxScore(scores, 1, 0)
    IN  IF best # 0 THEN CATEGORIES[best].name ELSE Otros

categorize_content(text, urls) ==
    IF ~Truthy(text) /\ urls = {} THEN SinCategoria
    ELSE LET content == ContentOf(text, urls)
             scores == [i \in 1..Len(CATEGORIES) |->
                           KeywordHits(CATEGORIES[i].keywords, 1, content)]
             best == MaxScore(scores, 1, 0)
         IN  IF best # 0 THEN CATEGORIES[best].name ELSE Otros
-----------------------------------------------------------------------------
(* The input directory, the images and the OCR engine *)

MaxMtime == 2
MaxEnv == 2

\* the file names that may appear in input/, in directory order
FileNames == <<"a.png", "b.jpg">>
Names == Range(FileNames)

\* what pytesseract.image_to_string reads in an image; Unreadable is an image
\* on which Image.open or the OCR raises
Unreadable == "<unreadable>"
DevShot == "Check github.com/foo "
PlainShot == "no links"
Contents == {DevShot, PlainShot, Unreadable}

Mtimes == 0..MaxMtime
NoFile == [mtime |-> -1, content |-> "<absent>"]
Files == [mtime : Mtimes, content : Contents]

exists(f) == dir[f] # NoFile
st_mtime(f) == dir[f].mtime

\* CaptureProcessor.get_image_files: extensions
extensions == <<".png", ".jpg", ".jpeg", ".gif", ".bmp", ".webp", ".heic">>

\* the patterns of the two globs per extension: '*.png', '*.PNG', ...
patterns ==
    [i \in 1..(2 * Len(extensions)) |->
        IF i % 2 = 1 THEN extensions[(i + 1) \div 2]
        ELSE str_upper(extensions[i \div 2])]

\* the names input_dir.glob('*' + pattern) can return, in directory order
GlobNames(pattern) == SelectSeq(FileNames, LAMBDA f : endswith(f, pattern))

RECURSIVE GlobAll(_)
GlobAll(i) ==
    IF i > Len(patterns) THEN <<>>
    ELSE GlobNames(patterns[i]) \o GlobAll(i + 1)

\* files.extend(...) over all patterns, were every name of FileNames present
GlobCandidates == GlobAll(1)

\* sorted(files, key=mtime): a stable insertion sort
RECURSIVE InsertByMtime(_, _)
InsertByMtime(sorted, f) ==
    IF sorted = <<>> THEN <<f>>
    ELSE IF st_mtime(sorted[Len(sorted)]) <= st_mtime(f)
         THEN Append(sorted, f)
         ELSE Append(InsertByMtime(SubSeq(sorted, 1, Len(sorted) - 1), f),
                     sorted[Len(sorted)])

RECURSIVE SortByMtime(_, _)
SortByMtime(files, n) ==
    IF n = 0 THEN <<>>
    ELSE InsertByMtime(SortByMtime(files, n - 1), files[n])

\* the globs return the entries that exist
get_image_files ==
    LET files == SelectSeq(GlobCandidates, exists)
    IN  SortByMtime(files, Len(files))

\* text.strip() of what the OCR reads, tabulated over the images of the model
StrippedText == [c \in Contents \ {Unreadable} |-> str_strip(c)]

\* CaptureProcessor.extract_text_from_image: None without OCR and when the
\* OCR raises, else the stripped text
extract_text_from_image(f) ==
    IF ~ocr_available THEN None
    ELSE IF ~exists(f) \/ dir[f].content = Unreadable THEN None
         ELSE StrippedText[dir[f].content]

\* the values extracted_text takes in the model
Texts == {None} \cup {StrippedText[c] : c \in DOMAIN StrippedText}

\* urls = self.extract_urls(extracted_text) if extracted_text else [],
\* tabulated over Texts
UrlsOf == [t \in Texts |-> IF Truthy(t) THEN extract_urls(t) ELSE {}]

\* category = self.categorize_content(extracted_text, urls), tabulated
CategoryOf == [t \in Texts |-> categorize_content(t, UrlsOf[t])]

-----------------------------------------------------------------------------
(* The processed-file cache *)

EmptyTable == [f \in {} |-> 0]

\* the states of .processed_files.json
StoreMissing == [kind |-> "missing", table |-> EmptyTable]
StoreUnreadable == [kind |-> "unreadable", table |-> EmptyTable]
StoreMalformed == [kind |-> "malformed", table |-> EmptyTable]
StoreOf(table) == [kind |-> "table", table |-> table]

\* a load that takes a damaged store for a table of records
load_damaged_as_records ==
    IF store.kind = "table" THEN store.table
    ELSE IF store.kind = "missing" THEN EmptyTable
    ELSE [f \in {"a.png"} |->
            [mtime |-> 1, text |-> "", urls |-> {}, category |-> "Otros"]]

\* CaptureProcessor.load_processed_files
load_processed_files ==
    IF store.kind # "missing"
    THEN IF store.kind = "table" THEN store.table ELSE EmptyTable
    ELSE EmptyTable

\* CaptureProcessor.is_file_processed, on a table
IsProcessedIn(table, f) ==
    /\ f \in DOMAIN table
    /\ LET stored_mtime == table[f].mtime
       IN  stored_mtime # 0 /\ stored_mtime = st_mtime(f)

is_file_processed(f) == IsProcessedIn(processed_files, f)

\* CaptureProcessor.mark_file_as_processed: the table after the call
mark_file_as_processed(f, text, urls, category) ==
    [g \in DOMAIN processed_files \cup {f} |->
        IF g = f
        THEN [mtime |-> st_mtime(f),
              text |-> IF Truthy(text) THEN text ELSE "",
              urls |-> urls,
              category |-> IF category # "" THEN category ELSE Otros]
        ELSE processed_files[g]]

-----------------------------------------------------------------------------
(* The report *)

\* resources.md does not exist
NoReport == [total |-> -1, buckets |-> EmptyTable]

\* one capture of generate_all_categorized_captures: its category and entry
CaptureOf(f) ==
    IF is_file_processed(f)
    THEN LET file_data == processed_files[f]
         IN  [category |-> file_data.category,
              entry |-> [file |-> f, text |-> file_data.text,
                         urls |-> file_data.urls]]
    ELSE LET text == extract_text_from_image(f)
             urls == UrlsOf[text]
         IN  [category |-> CategoryOf[text],
              entry |-> [file |-> f, text |-> text, urls |-> urls]]

\* a report patched rather than rebuilt: the captures of the run appended to
\* the categories of the report as it stands
generate_patched_captures ==
    LET caps == [i \in 1..Len(new_files) |-> CaptureOf(new_files[i])]
        cats == DOMAIN report.buckets \cup {caps[i].category : i \in 1..Len(caps)}
    IN  [c \in cats |->
            LET old == IF c \in DOMAIN report.buckets
                       THEN report.buckets[c] ELSE <<>>
                mine == SelectSeq(caps, LAMBDA x : x.category = c)
            IN  old \o [i \in 1..Len(mine) |-> mine[i].entry]]

\* CaptureProcessor.generate_all_categorized_captures: category -> captures
generate_all_categorized_captures ==
    LET all_files == get_image_files
        caps == [i \in 1..Len(all_files) |-> CaptureOf(all_files[i])]
        cats == {caps[i].category : i \in 1..Len(caps)}
    IN  [c \in cats |->
            LET mine == SelectSeq(caps, LAMBDA x : x.category = c)
            IN  [i \in 1..Len(mine) |-> mine[i].entry]]

\* CaptureProcessor.generate_markdown: the document written; a text that is
\* empty or None is not rendered
generate_markdown(categorized_captures, total_count) ==
    [total |-> total_count,
     buckets |-> [c \in DOMAIN categorized_captures |->
        [i \in 1..Len(categorized_captures[c]) |->
            LET e == categorized_captures[c][i]
            IN  [file |-> e.file, urls |-> e.urls,
                 text |-> IF Truthy(e.text) THEN e.text ELSE ""]]]]
-----------------------------------------------------------------------------
(* CaptureProcessor: construction and process_captures *)

NoLocals ==
    /\ image_files' = <<>>
    /\ new_files' = <<>>
    /\ idx' = 0
    /\ extracted_text' = None

\* CaptureProcessor.__init__: a new processor loads the table from the store
New ==
    /\ pc = "ready"
    /\ processed_files' = load_processed_files
    /\ calm' = IF processed_files' = processed_files THEN calm ELSE "dirty"
    /\ UNCHANGED <<dir, store, ocr_available, report, pc, image_files,
                   new_files, idx, extracted_text, outcome, envLeft>>
    /\ UNCHANGED <<cleared, fnVars, orgVars, watchVars>>

\* process_captures up to the loop, without the return on "nothing new": the
\* run goes on to the report with nothing to process
Start_AlwaysReports ==
    /\ pc = "ready"
    /\ LET files == get_image_files
           fresh == SelectSeq(files, LAMBDA f : ~is_file_processed(f))
       IN  IF files = <<>>
           THEN /\ outcome' = "no_images"
                /\ calm' = "sinceEnd"
                /\ NoLocals
                /\ UNCHANGED pc
           ELSE /\ outcome' = "running"
                /\ calm' = IF calm = "sinceEnd" THEN "sinceEnd" ELSE "sinceStart"
                /\ image_files' = files
                /\ new_files' = fresh
                /\ idx' = 1
                /\ extracted_text' = None
                /\ pc' = IF fresh = <<>> THEN "report" ELSE "ocr"
    /\ cleared' = FALSE
    /\ UNCHANGED <<dir, store, processed_files, ocr_available, report, envLeft>>
    /\ UNCHANGED <<fnVars, orgVars, watchVars>>

\* process_captures up to the loop: the listing, the filter, the two returns
Start ==
    /\ pc = "ready"
    /\ LET files == get_image_files
           fresh == SelectSeq(files, LAMBDA f : ~is_file_processed(f))
       IN  IF files = <<>>
           THEN /\ outcome' = "no_images"
                /\ calm' = "sinceEnd"
                /\ NoLocals
                /\ UNCHANGED pc
           ELSE IF fresh = <<>>
           THEN /\ outcome' = "nothing_new"
                /\ calm' = "sinceEnd"
                /\ NoLocals
                /\ UNCHANGED pc
           ELSE /\ outcome' = "running"
                /\ calm' = IF calm = "sinceEnd" THEN "sinceEnd" ELSE "sinceStart"
                /\ image_files' = files
                /\ new_files' = fresh
                /\ idx' = 1
                /\ extracted_text' = None
                /\ pc' = "ocr"
    /\ cleared' = FALSE
    /\ UNCHANGED <<dir, store, processed_files, ocr_available, report, envLeft>>
    /\ UNCHANGED <<fnVars, orgVars, watchVars>>

\* an exception leaves process_captures
Abort ==
    /\ pc' = "ready"
    /\ outcome' = "aborted"
    /\ calm' = "dirty"
    /\ NoLocals

\* the loop body up to the categorization: extract_info_from_filename stats
\* the file (the names of the model hold no date), then the OCR
Ocr ==
    /\ pc = "ocr"
    /\ LET image_file == new_files[idx]
       IN  IF ~exists(image_file)
           THEN Abort
           ELSE /\ extracted_text' = extract_text_from_image(image_file)
                /\ pc' = "mark"
                /\ UNCHANGED <<image_files, new_files, idx, outcome, calm>>
    /\ UNCHANGED <<dir, store, processed_files, ocr_available, report,
                   envLeft>>
    /\ UNCHANGED <<cleared, fnVars, orgVars, watchVars>>

\* the rest of the loop body, with the store written after each mark
Mark_saving ==
    /\ pc = "mark"
    /\ LET image_file == new_files[idx]
           urls == UrlsOf[extracted_text]
           category == CategoryOf[extracted_text]
       IN  IF ~exists(image_file)
           THEN Abort /\ UNCHANGED <<processed_files, store>>
           ELSE /\ processed_files' =
                       mark_file_as_processed(image_file, extracted_text, urls,
                                              category)
                /\ store' = StoreOf(processed_files')
                /\ extracted_text' = None
                /\ IF idx < Len(new_files)
                   THEN idx' = idx + 1 /\ pc' = "ocr"
                   ELSE idx' = idx /\ pc' = "save"
                /\ UNCHANGED <<image_files, new_files, outcome, calm>>
    /\ UNCHANGED <<dir, ocr_available, report, envLeft>>
    /\ UNCHANGED <<cleared, fnVars, orgVars, watchVars>>

\* the rest of the loop body: URLs, category, mark_file_as_processed
Mark ==
    /\ pc = "mark"
    /\ LET image_file == new_files[idx]
           urls == UrlsOf[extracted_text]
           category == CategoryOf[extracted_text]
       IN  IF ~exists(image_file)
           THEN Abort /\ UNCHANGED processed_files
           ELSE /\ processed_files' =
                       mark_file_as_processed(image_file, extracted_text, urls,
                                              category)
                /\ extracted_text' = None
                /\ IF idx < Len(new_files)
                   THEN idx' = idx + 1 /\ pc' = "ocr"
                   ELSE idx' = idx /\ pc' = "save"
                /\ UNCHANGED <<image_files, new_files, outcome, calm>>
    /\ UNCHANGED <<dir, store, ocr_available, report, envLeft>>
    /\ UNCHANGED <<cleared, fnVars, orgVars, watchVars>>

\* CaptureProcessor.save_processed_files: the table is written, or the file
\* cannot be opened (the store stays), or the write fails after the file was
\* truncated; no exception leaves it
save_processed_files ==
    \/ store' = StoreOf(processed_files)
    \/ store' = store
    \/ store' = StoreMalformed

Save ==
    /\ pc = "save"
    /\ save_processed_files
    /\ pc' = "report"
    /\ UNCHANGED <<dir, processed_files, ocr_available, report, image_files,
                   new_files, idx, extracted_text, outcome, envLeft, calm>>
    /\ UNCHANGED <<cleared, fnVars, orgVars, watchVars>>

\* generate_all_categorized_captures and generate_markdown
Report ==
    /\ pc = "report"
    /\ report' = generate_markdown(generate_all_categorized_captures,
                                   Len(image_files))
    /\ pc' = "ready"
    /\ outcome' = "completed"
    /\ calm' = "sinceEnd"
    /\ NoLocals
    /\ UNCHANGED <<dir, store, processed_files, ocr_available, envLeft>>
    /\ UNCHANGED <<cleared, fnVars, orgVars, watchVars>>

-----------------------------------------------------------------------------
(* The environment of the capture processor *)

\* a file is created or rewritten in input/
WriteFile ==
    /\ envLeft > 0
    /\ \E f \in Names, file \in Files :
        /\ dir[f] # file
        /\ dir' = [dir EXCEPT ![f] = file]
    /\ envLeft' = envLeft - 1
    /\ calm' = "dirty"
    /\ UNCHANGED <<store, processed_files, ocr_available, report, pc,
                   image_files, new_files, idx, extracted_text, outcome>>
    /\ UNCHANGED <<cleared, fnVars, orgVars, watchVars>>

\* a file is removed from input/
DeleteFile ==
    /\ envLeft > 0
    /\ \E f \in Names :
        /\ exists(f)
        /\ dir' = [dir EXCEPT ![f] = NoFile]
    /\ envLeft' = envLeft - 1
    /\ calm' = "dirty"
    /\ UNCHANGED <<store, processed_files, ocr_available, report, pc,
                   image_files, new_files, idx, extracted_text, outcome>>
    /\ UNCHANGED <<cleared, fnVars, orgVars, watchVars>>

\* the store is removed, made unreadable or overwritten with malformed JSON
StoreFault ==
    /\ envLeft > 0
    /\ \E s \in {StoreMissing, StoreUnreadable, StoreMalformed} :
        /\ store # s
        /\ store' = s
    /\ envLeft' = envLeft - 1
    /\ calm' = "dirty"
    /\ UNCHANGED <<dir, processed_files, ocr_available, report, pc,
                   image_files, new_files, idx, extracted_text, outcome>>
    /\ UNCHANGED <<cleared, fnVars, orgVars, watchVars>>

\* test_script.clear_cache: the store, if there is one, is unlinked; the
\* processor it makes for that is another one than the one that runs
ClearCache ==
    /\ envLeft > 0
    /\ store.kind # "missing"
    /\ store' = StoreMissing
    /\ cleared' = TRUE
    /\ envLeft' = envLeft - 1
    /\ calm' = "dirty"
    /\ UNCHANGED <<dir, processed_files, ocr_available, report, pc,
                   image_files, new_files, idx, extracted_text, outcome>>
    /\ UNCHANGED <<fnVars, orgVars, watchVars>>

-----------------------------------------------------------------------------
(* The capture processor: an empty input/, no store, a processor just made *)

NotRun == "<not run>"

\* no function is being applied
NoInput == [op |-> "none", ext |-> "", text |-> None, urls |-> {}, name |-> ""]
NoOutput ==
    [interactive |-> NotRun, auto |-> NotRun, category |-> NotRun,
     is_image_file |-> NotRun, is_image |-> NotRun, listed |-> NotRun]
FnIdle == fn_in = NoInput /\ fn_out = NoOutput

\* no monitor runs
NoCallbacks == <<>>
NoPoll == [pc |-> "off", wake |-> 0, current_files |-> {}]
WatchIdle ==
    /\ watcher = "none"
    /\ mode = "none"
    /\ now = 0
    /\ processing = FALSE
    /\ last_process_time = 0
    /\ last_event_time = 0
    /\ cb = NoCallbacks
    /\ last_trigger = 0
    /\ input_files = EmptyTable
    /\ last_files = {}
    /\ poll = NoPoll

\* no organizer is running
NoDir == [exists |-> FALSE, files |-> EmptyTable]
OrgIdle ==
    /\ script = "none"
    /\ modo_prueba = TRUE
    /\ downloads = NoDir
    /\ carpetas = EmptyTable
    /\ items = {}
    /\ contadores = EmptyTable
    /\ org_pc = "done"
    /\ historia = [corrida |-> 0, listada |-> FALSE, fallidos |-> {},
                   tras_real |-> FALSE]

Init ==
    /\ dir = [f \in Names |-> NoFile]
    /\ store = StoreMissing
    /\ processed_files = EmptyTable
    /\ ocr_available \in BOOLEAN
    /\ report = NoReport
    /\ pc = "ready"
    /\ image_files = <<>>
    /\ new_files = <<>>
    /\ idx = 0
    /\ extracted_text = None
    /\ outcome = "none"
    /\ envLeft = MaxEnv
    /\ calm = "dirty"
    /\ cleared = FALSE
    /\ FnIdle
    /\ OrgIdle
    /\ WatchIdle

Next ==
    \/ New
    \/ Start
    \/ Ocr
    \/ Mark
    \/ Save
    \/ Report
    \/ WriteFile
    \/ DeleteFile
    \/ StoreFault
    \/ ClearCache

Spec == Init /\ [][Next]_vars
-----------------------------------------------------------------------------
(* Steps of process_captures, as the properties name them *)

\* the images now in input/
PresentImages == {f \in Range(GlobCandidates) : exists(f)}

\* mark_file_as_processed(f) has just returned
MarkStepOf(f) ==
    /\ pc = "mark"
    /\ pc' \in {"ocr", "save"}
    /\ new_files[idx] = f

\* generate_markdown has just written the report
ReportStep == pc = "report" /\ pc' = "ready"

\* a run has just ended without an exception
RunEnds ==
    /\ outcome' # outcome
    /\ outcome' \in {"no_images", "nothing_new", "completed"}

\* a new processor loads a store that does not hold the table as last saved
\* by this one: the store was lost or damaged, or the last save failed
LoadsOtherStore ==
    /\ pc = "ready"
    /\ pc' = "ready"
    /\ processed_files' # processed_files

\* the record of f holds the modification time f has now
RecordMatches(f) ==
    /\ f \in DOMAIN processed_files
    /\ processed_files[f].mtime = st_mtime(f)

-----------------------------------------------------------------------------
(* C1 *)

\* C1: is_file_processed(f) is true if and only if the table holds a record
\* under the name of f whose stored modification time equals the current
\* modification time of f, whatever that time is, 0 included.
C1_ProcessedIffRecordMatches ==
    \A f \in Names : exists(f) => (is_file_processed(f) <=> RecordMatches(f))

(* C2 *)

\* C2: after mark_file_as_processed(f) the check is_file_processed(f) is true
\* and stays true, through runs and through loads of the saved table, while
\* the modification time of f is unchanged; once the modification time
\* changes the check is false, and it stays false until f is marked again.
C2_MarkedStaysProcessedUntilTouched ==
    /\ [][\A f \in Names : MarkStepOf(f) => is_file_processed(f)']_vars
    /\ [][\A f \in Names :
            (/\ exists(f) /\ is_file_processed(f)
             /\ exists(f)' /\ st_mtime(f)' = st_mtime(f)
             /\ ~LoadsOtherStore)
            => is_file_processed(f)']_vars
    /\ [][\A f \in Names :
            (exists(f) /\ exists(f)' /\ st_mtime(f)' # st_mtime(f))
            => ~is_file_processed(f)']_vars
    /\ [][\A f \in Names :
            (/\ exists(f) /\ ~is_file_processed(f)
             /\ exists(f)' /\ ~MarkStepOf(f) /\ ~LoadsOtherStore)
            => ~is_file_processed(f)']_vars
-----------------------------------------------------------------------------
(* C3 *)

\* the files a report lists, one per entry, as a bag: file -> number of entries
EntryCount(r, f) ==
    LET n[c \in DOMAIN r.buckets] ==
            Cardinality({i \in DOMAIN r.buckets[c] : r.buckets[c][i].file = f})
        RECURSIVE Sum(_)
        Sum(cs) == IF cs = {} THEN 0
                   ELSE LET c == CHOOSE x \in cs : TRUE
                        IN  n[c] + Sum(cs \ {c})
    IN  Sum(DOMAIN r.buckets)

\* the report lists exactly the images now in input/, each once
ListsPresentImages(r) ==
    /\ r # NoReport
    /\ \A f \in Names : EntryCount(r, f) = IF f \in PresentImages THEN 1 ELSE 0

\* C3 as stated: every run that ends, also one that finds no new image and
\* one made after images were removed, has rewritten the report from the
\* images then in input/.
C3_EveryRunRewritesReport ==
    [][(RunEnds /\ PresentImages # {})
        => (ReportStep /\ ListsPresentImages(report)')]_vars

\* C3 as amended: a run rewrites the report, from the images then in input/,
\* when it has found an image that is not yet processed; a run that finds no
\* image or no new image returns at once and leaves the report as it was.
C3_ReportRewrittenOnlyWithNewImages ==
    /\ [][ReportStep => ListsPresentImages(report)']_vars
    /\ [][(pc = "ready" /\ \A f \in PresentImages : is_file_processed(f))
            => (pc' = "ready" /\ report' = report)]_vars
    /\ [][(pc = "ready" /\ pc' # "ready")
            => (\E f \in PresentImages : ~is_file_processed(f))]_vars
    /\ [][report' # report => ReportStep]_vars

\* a run has just returned for want of an image to process, and has left an
\* earlier report that lists an image removed before that run
C3_Witness ==
    /\ outcome \in {"no_images", "nothing_new"}
    /\ calm = "sinceEnd"
    /\ report # NoReport
    /\ ~ListsPresentImages(report)
-----------------------------------------------------------------------------
(* C4 *)

\* the category groupings of a report: category -> the files listed, in order
\* (the count of a category is the length of its list)
Groupings(r) ==
    [c \in DOMAIN r.buckets |->
        [i \in DOMAIN r.buckets[c] |-> r.buckets[c][i].file]]

\* C4: a run that follows another run, with no change to input/, to the store
\* or to the table since that run ended, leaves a report with the category
\* groupings and the per-category counts the report had after that run.
C4_SecondRunSameGroupings ==
    /\ [][(ReportStep /\ calm = "sinceEnd")
            => Groupings(report') = Groupings(report)]_vars
    /\ [][(RunEnds /\ ~ReportStep) => report' = report]_vars

\* a second run, with nothing changed since the first ended, is about to
\* write the report again
C4_Witness ==
    /\ pc = "report"
    /\ calm = "sinceEnd"
    /\ report # NoReport
-----------------------------------------------------------------------------
(* C8 *)

\* input/ holds a.png showing "Check github.com/foo" and b.jpg showing
\* "no links", and nothing else
TwoShots ==
    /\ exists("a.png") /\ dir["a.png"].content = DevShot
    /\ exists("b.jpg") /\ dir["b.jpg"].content = PlainShot
    /\ PresentImages = {"a.png", "b.jpg"}

\* C8: a full run with OCR over the two images, both new, undisturbed by any
\* change to input/ or the store, writes a report of exactly two categories:
\* a.png alone under Desarrollo with exactly one URL, b.jpg alone under Otros
\* with no URL.
C8_TwoShotsTwoBuckets ==
    [][(/\ ReportStep
        /\ calm # "dirty"
        /\ ocr_available
        /\ TwoShots
        /\ Range(new_files) = {"a.png", "b.jpg"})
       => LET b == report'.buckets
          IN  /\ DOMAIN b = {"Desarrollo", Otros}
              /\ Len(b["Desarrollo"]) = 1
              /\ b["Desarrollo"][1].file = "a.png"
              /\ Cardinality(b["Desarrollo"][1].urls) = 1
              /\ Len(b[Otros]) = 1
              /\ b[Otros][1].file = "b.jpg"
              /\ b[Otros][1].urls = {}]_vars

\* such a run has ended: both images were extracted with OCR in the run that
\* wrote the report, and nothing has changed since it started
C8_Witness ==
    /\ outcome = "completed"
    /\ calm = "sinceEnd"
    /\ ocr_available
    /\ TwoShots
    /\ report.total = 2
    /\ DOMAIN processed_files = {"a.png", "b.jpg"}
    /\ processed_files["a.png"].text = "Check github.com/foo"
    /\ processed_files["b.jpg"].text = "no links"
    /\ envLeft = 0

-----------------------------------------------------------------------------
(* C9 *)

\* the table was loaded from a store that is missing, unreadable or malformed
LoadsBrokenStore ==
    /\ LoadsOtherStore
    /\ store.kind \in {"missing", "unreadable", "malformed"}

\* C9: loading a missing, unreadable or malformed store yields the empty
\* table; a run started on the empty table takes every image of input/ as
\* new, and no run ends with an exception unless an image it listed as new
\* has been removed meanwhile.
C9_BrokenStoreLoadsEmpty ==
    /\ [][LoadsBrokenStore => processed_files' = EmptyTable]_vars
    /\ [][(pc = "ready" /\ processed_files = EmptyTable /\ PresentImages # {}
           /\ outcome' # outcome)
          => (/\ pc' = "ocr"
              /\ Range(new_files') = PresentImages
              /\ Len(new_files') = Cardinality(PresentImages))]_vars
    /\ [][(outcome' = "aborted" /\ outcome # "aborted")
          => (pc \in {"ocr", "mark"} /\ ~exists(new_files[idx]))]_vars

\* a processor that held records has been replaced by one that loaded a
\* malformed store, and its run has taken every image as new
C9_Witness ==
    /\ store.kind = "malformed"
    /\ processed_files = EmptyTable
    /\ report # NoReport
    /\ pc = "ocr"
    /\ Range(new_files) = PresentImages

-----------------------------------------------------------------------------
(* C10 *)

\* the OCR of f yields no text: the dependency is missing, or it raises
OcrFails(f) == ~ocr_available \/ dir[f].content = Unreadable

\* C10: when the OCR is missing or fails on an image, the run goes on: the
\* image gets no text, is recorded with an empty text, no URL and the label
\* "Sin categoria", the loop moves to the next new image, and the run that
\* reaches the report step writes the report.
C10_OcrFailureDoesNotAbort ==
    /\ [][(pc = "ocr" /\ exists(new_files[idx]) /\ OcrFails(new_files[idx])
           /\ pc' # pc)
          => (pc' = "mark" /\ extracted_text' = None)]_vars
    /\ [][\A f \in Names :
            (MarkStepOf(f) /\ extracted_text = None)
            => (/\ f \in DOMAIN processed_files'
                /\ processed_files'[f].text = ""
                /\ processed_files'[f].urls = {}
                /\ processed_files'[f].category = SinCategoria
                /\ processed_files'[f].mtime = st_mtime(f)
                /\ IF idx < Len(new_files)
                   THEN pc' = "ocr" /\ idx' = idx + 1
                   ELSE pc' = "save")]_vars
    /\ [][(pc = "save" /\ pc' # pc) => pc' = "report"]_vars
    /\ [][(pc = "report" /\ pc' # pc) => (ReportStep /\ report' # NoReport)]_vars

\* with the OCR installed, the first new image could not be read, it was
\* recorded as uncategorized, and the run has gone on to the second
C10_Witness ==
    /\ ocr_available
    /\ pc = "ocr"
    /\ idx = 2
    /\ new_files[1] \in DOMAIN processed_files
    /\ processed_files[new_files[1]].category = SinCategoria
    /\ exists(new_files[1])
    /\ dir[new_files[1]].content = Unreadable
-----------------------------------------------------------------------------
(* The Downloads organizers: CATEGORIAS and obtener_categoria *)

\* organize_downloads.py: CATEGORIAS, in the order of the dict
CATEGORIAS == <<
    [name |-> "Imagenes",
     extensiones |-> <<".jpg", ".jpeg", ".png", ".gif", ".bmp", ".svg",
                       ".webp", ".ico", ".tiff", ".tif">>],
    [name |-> "Documentos",
     extensiones |-> <<".pdf", ".doc", ".docx", ".txt", ".xls", ".xlsx",
                       ".ppt", ".pptx", ".odt", ".csv", ".rtf">>],
    [name |-> "Videos",
     extensiones |-> <<".mp4", ".avi", ".mkv", ".mov", ".wmv", ".flv",
                       ".webm", ".m4v", ".mpeg", ".mpg">>],
    [name |-> "Audio",
     extensiones |-> <<".mp3", ".wav", ".flac", ".aac", ".ogg", ".wma",
                       ".m4a", ".opus">>],
    [name |-> "Archivos",
     extensiones |-> <<".zip", ".rar", ".7z", ".tar", ".gz", ".bz2", ".xz",
                       ".iso">>],
    [name |-> "Programas",
     extensiones |-> <<".exe", ".msi", ".dmg", ".apk", ".deb", ".rpm">>],
    [name |-> "Otros", extensiones |-> <<>>] >>

\* organize_downloads_auto.py: CATEGORIAS, in the order of the dict
CATEGORIAS_auto == <<
    [name |-> "Imagenes",
     extensiones |-> <<".jpg", ".jpeg", ".png", ".gif", ".bmp", ".svg",
                       ".webp", ".ico", ".tiff", ".tif">>],
    [name |-> "Documentos",
     extensiones |-> <<".pdf", ".doc", ".docx", ".txt", ".xls", ".xlsx",
                       ".ppt", ".pptx", ".odt", ".csv", ".rtf">>],
    [name |-> "Videos",
     extensiones |-> <<".mp4", ".avi", ".mkv", ".mov", ".wmv", ".flv",
                       ".webm", ".m4v", ".mpeg", ".mpg">>],
    [name |-> "Audio",
     extensiones |-> <<".mp3", ".wav", ".flac", ".aac", ".ogg", ".wma",
                       ".m4a", ".opus">>],
    [name |-> "Archivos",
     extensiones |-> <<".zip", ".rar", ".7z", ".tar", ".gz", ".bz2", ".xz",
                       ".iso">>],
    [name |-> "Programas",
     extensiones |-> <<".exe", ".msi", ".dmg", ".apk", ".deb", ".rpm">>],
    [name |-> "Otros", extensiones |-> <<>>] >>

\* for categoria, extensiones in table.items(): the first list that holds
\* extension, from entry i on
RECURSIVE FirstCategoria(_, _, _)
FirstCategoria(table, extension, i) ==
    IF i > Len(table) THEN "Otros"
    ELSE IF extension \in Range(table[i].extensiones)
         THEN table[i].name
         ELSE FirstCategoria(table, extension, i + 1)

\* obtener_categoria without extension.lower()
obtener_categoria_as_typed(extension) ==
    FirstCategoria(CATEGORIAS, extension, 1)

\* organize_downloads.py: obtener_categoria
obtener_categoria(extension) ==
    FirstCategoria(CATEGORIAS, str_lower(extension), 1)

\* organize_downloads_auto.py: obtener_categoria
obtener_categoria_auto(extension) ==
    FirstCategoria(CATEGORIAS_auto, str_lower(extension), 1)

-----------------------------------------------------------------------------
(* The pure functions, applied to inputs drawn from bounded sets *)

\* the extensions of the two tables
ListedExtensions ==
    UNION {Range(CATEGORIAS[i].extensiones) : i \in 1..Len(CATEGORIAS)}
        \cup UNION {Range(CATEGORIAS_auto[i].extensiones) :
                        i \in 1..Len(CATEGORIAS_auto)}

\* s with its second character in upper case
MixedCase(s) == Slice(s, 1, 1) \o str_upper(Slice(s, 2, 2)) \o Slice(s, 3, Len(s))

\* extensions that no list holds, the empty one among them
UnlistedExtensions == {"", ".", ".xyz", ".pngx", "png", ".md", ".JSON", ".p"}

Extensions ==
    ListedExtensions
        \cup {str_upper(e) : e \in ListedExtensions}
        \cup {MixedCase(e) : e \in ListedExtensions}
        \cup UnlistedExtensions

\* the longest text drawn, in words
MaxWords == 3

Vocabulary == {"GitHub", "amazon", "shop", "news", "hola"}

\* the texts of at most n words of the vocabulary
RECURSIVE TextsOfWords(_)
TextsOfWords(n) ==
    IF n = 0 THEN {""}
    ELSE LET shorter == TextsOfWords(n - 1)
         IN  shorter \cup Vocabulary
                \cup {t \o " " \o w : t \in shorter \ {""}, w \in Vocabulary}

UrlSets == {{}, {"https://github.com/foo"},
            {"https://shop.example.com", "https://t.co/x"}}

\* the names of the entries of input/ that an event can be about
EventNames ==
    {"shot" \o extensions[i] : i \in 1..Len(extensions)}
        \cup {"shot" \o str_upper(extensions[i]) : i \in 1..Len(extensions)}
        \cup {"shot" \o MixedCase(extensions[i]) : i \in 1..Len(extensions)}
        \cup {"shot.txt", "shot", ".png", "shot.png.", "shot.tar.PNG", "png"}

FnInputs ==
    {[op |-> "ext", ext |-> e, text |-> None, urls |-> {}, name |-> ""] :
        e \in Extensions}
        \cup {[op |-> "content", ext |-> "", text |-> t, urls |-> u,
               name |-> ""] :
                t \in TextsOfWords(MaxWords) \cup {None}, u \in UrlSets}
        \cup {[op |-> "image", ext |-> "", text |-> None, urls |-> {},
               name |-> n] : n \in EventNames}

\* the capture processor is not running
CapIdle ==
    /\ dir = [f \in Names |-> NoFile]
    /\ store = StoreMissing
    /\ processed_files = EmptyTable
    /\ ocr_available = FALSE
    /\ report = NoReport
    /\ pc = "idle"
    /\ image_files = <<>>
    /\ new_files = <<>>
    /\ idx = 0
    /\ extracted_text = None
    /\ outcome = "none"
    /\ envLeft = 0
    /\ calm = "dirty"
    /\ cleared = FALSE

InitFn ==
    /\ fn_in \in FnInputs
    /\ fn_out = NoOutput
    /\ CapIdle
    /\ OrgIdle
    /\ WatchIdle

\* organize_downloads.py applies obtener_categoria
ObtenerCategoria ==
    /\ fn_in.op = "ext"
    /\ fn_out.interactive = NotRun
    /\ fn_out' = [fn_out EXCEPT !.interactive = obtener_categoria(fn_in.ext)]
    /\ UNCHANGED <<fn_in, capVars, orgVars, watchVars>>

\* organize_downloads_auto.py applies obtener_categoria
ObtenerCategoriaAuto ==
    /\ fn_in.op = "ext"
    /\ fn_out.auto = NotRun
    /\ fn_out' = [fn_out EXCEPT !.auto = obtener_categoria_auto(fn_in.ext)]
    /\ UNCHANGED <<fn_in, capVars, orgVars, watchVars>>

\* the capture processor applies categorize_content
CategorizeContent ==
    /\ fn_in.op = "content"
    /\ fn_out.category = NotRun
    /\ fn_out' = [fn_out EXCEPT
                    !.category = categorize_content(fn_in.text, fn_in.urls)]
    /\ UNCHANGED <<fn_in, capVars, orgVars, watchVars>>

\* pathlib's Path(name).suffix: from the last dot, unless the name starts
\* or ends with it
suffix(name) ==
    LET dots == {i \in 1..Len(name) : Char(name, i) = "."}
    IN  IF dots = {} THEN ""
        ELSE LET d == CHOOSE i \in dots : \A j \in dots : j <= i
             IN  IF d > 1 /\ d < Len(name) THEN Slice(name, d, Len(name))
                 ELSE ""

\* ImageFileHandler.is_image_file: the suffix in lower case is in the list
is_image_file(file_path) ==
    str_lower(suffix(file_path)) \in
        {".png", ".jpg", ".jpeg", ".gif", ".bmp", ".webp", ".heic"}

\* ImageWatcher.is_image: the same test on the set self.extensions
is_image(path) ==
    str_lower(suffix(path)) \in
        {".png", ".jpg", ".jpeg", ".gif", ".bmp", ".webp", ".heic"}

\* get_image_files returns an entry of this name: one of the globs
\* '*.png', '*.PNG', ... matches it, case by case
listed_by_glob(name) ==
    \E i \in 1..Len(patterns) : endswith(name, patterns[i])

\* a truth value as fn_out holds it
Answer(b) == IF b THEN "True" ELSE "False"

\* watch_folder.py applies is_image_file to the path of an event
IsImageFile ==
    /\ fn_in.op = "image"
    /\ fn_out.is_image_file = NotRun
    /\ fn_out' = [fn_out EXCEPT !.is_image_file = Answer(is_image_file(fn_in.name))]
    /\ UNCHANGED <<fn_in, capVars, orgVars, watchVars>>

\* auto_monitor.py applies is_image to the path of an event
IsImage ==
    /\ fn_in.op = "image"
    /\ fn_out.is_image = NotRun
    /\ fn_out' = [fn_out EXCEPT !.is_image = Answer(is_image(fn_in.name))]
    /\ UNCHANGED <<fn_in, capVars, orgVars, watchVars>>

\* the run lists input/, which holds an entry of the name of the event
GetImageFiles ==
    /\ fn_in.op = "image"
    /\ fn_out.listed = NotRun
    /\ fn_out' = [fn_out EXCEPT !.listed = Answer(listed_by_glob(fn_in.name))]
    /\ UNCHANGED <<fn_in, capVars, orgVars, watchVars>>

NextFn ==
    \/ ObtenerCategoria
    \/ ObtenerCategoriaAuto
    \/ CategorizeContent
    \/ IsImageFile
    \/ IsImage
    \/ GetImageFiles

SpecFn == InitFn /\ [][NextFn]_vars

-----------------------------------------------------------------------------
(* C5 *)

\* the entries of a table whose list holds the extension, compared without
\* regard to case
Holders(table, extension) ==
    {i \in 1..Len(table) :
        \E e \in Range(table[i].extensiones) :
            str_lower(e) = str_lower(extension)}

\* the category the claim names: the first holder in table order, else Otros
ExpectedCategoria(table, extension) ==
    LET holders == Holders(table, extension)
    IN  IF holders = {} THEN "Otros"
        ELSE table[CHOOSE i \in holders : \A j \in holders : i <= j].name

\* C5: obtener_categoria returns, for an extension that some category lists
\* (compared without regard to case), the first such category in table order,
\* and Otros for any other extension, the empty one included; the interactive
\* and the unattended organizer return the same category.
C5_FirstListedCategoryOrOtros ==
    /\ fn_out.interactive # NotRun
        => fn_out.interactive = ExpectedCategoria(CATEGORIAS, fn_in.ext)
    /\ fn_out.auto # NotRun
        => fn_out.auto = ExpectedCategoria(CATEGORIAS_auto, fn_in.ext)
    /\ (fn_out.interactive # NotRun /\ fn_out.auto # NotRun)
        => fn_out.interactive = fn_out.auto

\* both organizers have classified an extension written in upper case
C5_Witness ==
    /\ fn_in.op = "ext"
    /\ fn_in.ext = ".JPEG"
    /\ fn_out.interactive = "Imagenes"
    /\ fn_out.auto = "Imagenes"
-----------------------------------------------------------------------------
(* C7 *)

\* the category of the highest score, the first in the order of CATEGORIES
\* on a tie; 0 when no category scores
Winner(scores) ==
    IF \A i \in DOMAIN scores : scores[i] = 0 THEN 0
    ELSE CHOOSE i \in DOMAIN scores :
            /\ \A j \in DOMAIN scores : scores[j] <= scores[i]
            /\ \A j \in DOMAIN scores : j < i => scores[j] < scores[i]

\* the label a scoring gives to the input drawn: a default label when there
\* is neither text nor URL and when no category scores
Labelled(label, scores) ==
    IF (~Truthy(fn_in.text) /\ fn_in.urls = {}) \/ Winner(scores) = 0
    THEN label \in {SinCategoria, Otros}
    ELSE label = CATEGORIES[Winner(scores)].name

\* per category, the total number of occurrences of its keywords in content
OccurrenceScores ==
    LET content == ContentOf(fn_in.text, fn_in.urls)
    IN  [i \in 1..Len(CATEGORIES) |->
            KeywordOccurrences(CATEGORIES[i].keywords, 1, content)]

\* per category, the number of its keywords that occur in content
PresenceScores ==
    LET content == ContentOf(fn_in.text, fn_in.urls)
    IN  [i \in 1..Len(CATEGORIES) |->
            Cardinality({k \in 1..Len(CATEGORIES[i].keywords) :
                str_in(str_lower(CATEGORIES[i].keywords[k]), content)})]

\* C7 as stated: categorize_content scores each category by the total number
\* of occurrences of its keywords in the lower-cased content and returns the
\* category of the highest score, the first in the order of CATEGORIES on a
\* tie, and a default label when no keyword occurs or there is neither text
\* nor URL.
C7_ScoredByTotalOccurrences ==
    fn_out.category # NotRun => Labelled(fn_out.category, OccurrenceScores)

\* C7 as amended: the score of a category is the number of its keywords that
\* occur at least once in the lower-cased content, however often each occurs;
\* the highest score wins, the first in the order of CATEGORIES on a tie, and
\* a default label is returned when no keyword occurs or there is neither
\* text nor URL.
C7_ScoredByKeywordsPresent ==
    fn_out.category # NotRun => Labelled(fn_out.category, PresenceScores)

\* a text that names one keyword of Compras twice and one of Desarrollo once
\* has been categorized: one keyword each, and Desarrollo comes first
C7_Witness ==
    /\ fn_in.op = "content"
    /\ fn_in.text = "amazon amazon GitHub"
    /\ fn_in.urls = {}
    /\ fn_out.category = "Desarrollo"
-----------------------------------------------------------------------------
(* The Downloads organizers: organizar_archivos *)

\* str(n) for n >= 0
RECURSIVE str_int(_)
str_int(n) ==
    IF n < 10 THEN Char(Digits, n + 1)
    ELSE str_int(n \div 10) \o Char(Digits, (n % 10) + 1)

\* the number of dots p starts with
RECURSIVE LeadingDots(_, _)
LeadingDots(p, i) ==
    IF Char(p, i) = "." THEN LeadingDots(p, i + 1) ELSE i - 1

\* os.path.splitext(p), p without a separator: <<root, ext>>, ext from the
\* last dot, which is not one of the leading dots
splitext(p) ==
    LET lead == LeadingDots(p, 1)
        dots == {i \in (lead + 1)..Len(p) : Char(p, i) = "."}
    IN  IF dots = {} THEN <<p, "">>
        ELSE LET d == CHOOSE i \in dots : \A j \in dots : j <= i
             IN  <<Slice(p, 1, d - 1), Slice(p, d, Len(p))>>

\* _, extension = os.path.splitext(item); obtener_categoria(extension), of
\* each organizer, tabulated over the files of Downloads
CategoriasDe ==
    [item \in {"x.txt", "x_1.txt", "y.PNG"} |->
        [interactive |-> obtener_categoria(splitext(item)[2]),
         auto |-> obtener_categoria_auto(splitext(item)[2])]]

\* the organizer that runs applies its own obtener_categoria
categoria_de(item) ==
    IF script = "organize_downloads_auto.py"
    THEN CategoriasDe[item].auto
    ELSE CategoriasDe[item].interactive

\* the names of the categories of the table of the organizer that runs
categorias ==
    IF script = "organize_downloads_auto.py"
    THEN {CATEGORIAS_auto[i].name : i \in 1..Len(CATEGORIAS_auto)}
    ELSE {CATEGORIAS[i].name : i \in 1..Len(CATEGORIAS)}

\* crear_carpetas: the folders after the call; a folder that exists is kept
crear_carpetas ==
    [c \in DOMAIN carpetas \cup categorias |->
        IF c \in DOMAIN carpetas THEN carpetas[c] ELSE EmptyTable]

\* while os.path.exists(ruta_destino): nuevo_nombre = base_contador+ext
RECURSIVE nuevo_nombre(_, _, _, _)
nuevo_nombre(carpeta, destino, item, contador) ==
    IF destino \in DOMAIN carpeta
    THEN nuevo_nombre(carpeta,
                      splitext(item)[1] \o "_" \o str_int(contador)
                          \o splitext(item)[2],
                      item, contador + 1)
    ELSE destino

\* the collision handled with an if instead of the while: one new name, tried
\* once
ruta_destino_una_vez(carpeta, item) ==
    IF item \in DOMAIN carpeta
    THEN splitext(item)[1] \o "_" \o str_int(1) \o splitext(item)[2]
    ELSE item

\* the name of ruta_destino inside carpeta_destino when the file is moved
ruta_destino(carpeta, item) ==
    IF item \in DOMAIN carpeta
    THEN nuevo_nombre(carpeta, item, item, 1)
    ELSE item

\* the largest k of the entries base_k found in a folder before the run
MaxCollisions == 2

\* the files of Downloads before the run
SourceNames == DOMAIN CategoriasDe

\* the entries Documentos may hold before the run
CollisionNames ==
    {"x.txt"} \cup {"x_" \o str_int(k) \o ".txt" : k \in 1..MaxCollisions}

Old == "old"
FromDownloads(n) == "Downloads/" \o n

\* the folders before the run: Documentos may exist and hold entries,
\* Imagenes may exist and hold y.PNG
FoldersBefore ==
    {[c \in cs |-> IF c = "Documentos" THEN [n \in docs |-> Old]
                   ELSE [n \in {"y.PNG"} |-> Old]] :
        cs \in SUBSET {"Documentos", "Imagenes"},
        docs \in SUBSET CollisionNames}

InitOrg ==
    /\ script \in {"organize_downloads.py", "organize_downloads_auto.py"}
    /\ modo_prueba \in BOOLEAN
    /\ downloads \in {NoDir} \cup
            {[exists |-> TRUE, files |-> [n \in ns |-> FromDownloads(n)]] :
                ns \in SUBSET SourceNames}
    /\ carpetas \in (IF downloads = NoDir THEN {EmptyTable} ELSE FoldersBefore)
    /\ items = {}
    /\ contadores = EmptyTable
    /\ org_pc = "start"
    /\ historia = [corrida |-> 1, listada |-> FALSE, fallidos |-> {},
                   tras_real |-> FALSE]
    /\ CapIdle
    /\ FnIdle
    /\ WatchIdle

\* organizar_archivos: Downloads does not exist
OrgNoDir ==
    /\ org_pc = "start"
    /\ downloads = NoDir
    /\ org_pc' = "done"
    /\ UNCHANGED <<historia, script, modo_prueba, downloads, carpetas, items,
                   contadores>>
    /\ UNCHANGED <<capVars, fnVars, watchVars>>

\* crear_carpetas: os.makedirs raises on a folder that is missing, after the
\* missing folders before it in the table were made; nothing catches it
OrgMakedirsFails ==
    /\ org_pc = "start"
    /\ downloads.exists
    /\ \E i \in 1..Len(CATEGORIAS) :
        /\ CATEGORIAS[i].name \notin DOMAIN carpetas
        /\ carpetas' =
            [c \in DOMAIN carpetas \cup {CATEGORIAS[j].name : j \in 1..(i - 1)}
                |-> IF c \in DOMAIN carpetas THEN carpetas[c] ELSE EmptyTable]
    /\ org_pc' = "raised"
    /\ UNCHANGED <<historia, script, modo_prueba, downloads, items, contadores>>
    /\ UNCHANGED <<capVars, fnVars, watchVars>>

\* organizar_archivos up to the loop: crear_carpetas and os.listdir
OrgList ==
    /\ org_pc = "start"
    /\ downloads # NoDir
    /\ carpetas' = crear_carpetas
    /\ contadores' = [c \in categorias |-> 0]
    /\ items' = DOMAIN downloads.files \cup DOMAIN carpetas'
    /\ org_pc' = "loop"
    /\ historia' = [historia EXCEPT !.listada = TRUE]
    /\ UNCHANGED <<script, modo_prueba, downloads>>
    /\ UNCHANGED <<capVars, fnVars, watchVars>>

\* os.listdir raises PermissionError
OrgListDenied ==
    /\ org_pc = "start"
    /\ downloads # NoDir
    /\ carpetas' = crear_carpetas
    /\ contadores' = [c \in categorias |-> 0]
    /\ org_pc' = "done"
    /\ UNCHANGED <<historia, script, modo_prueba, downloads, items>>
    /\ UNCHANGED <<capVars, fnVars, watchVars>>

\* the place of a category folder in the table
PlaceOf(c) == CHOOSE i \in 1..Len(CATEGORIAS) : CATEGORIAS[i].name = c

\* the loop body on a directory: continue. Skipping a folder changes
\* nothing, so the folders are taken in the order of the table; the files
\* come at any place among them
OrgSkipDir ==
    /\ org_pc = "loop"
    /\ \E item \in items :
        /\ item \in DOMAIN carpetas
        /\ \A other \in items \cap DOMAIN carpetas :
                PlaceOf(item) <= PlaceOf(other)
        /\ items' = items \ {item}
    /\ UNCHANGED <<historia, script, modo_prueba, downloads, carpetas, contadores,
                   org_pc>>
    /\ UNCHANGED <<capVars, fnVars, watchVars>>

\* contadores[categoria] += 1; archivos_procesados += 1
Contado(categoria) == [contadores EXCEPT ![categoria] = @ + 1]

\* archivos_procesados: the counters are raised together, it is their sum
RECURSIVE SumaDe(_, _)
SumaDe(cuenta, cs) ==
    IF cs = {} THEN 0
    ELSE LET c == CHOOSE x \in cs : TRUE
         IN  cuenta[c] + SumaDe(cuenta, cs \ {c})

archivos_procesados == SumaDe(contadores, DOMAIN contadores)

\* the loop body on a file, modo_prueba: the action is shown and counted,
\* nothing moves
OrgShow ==
    /\ org_pc = "loop"
    /\ modo_prueba
    /\ \E item \in items :
        /\ item \notin DOMAIN carpetas
        /\ contadores' = Contado(categoria_de(item))
        /\ items' = items \ {item}
    /\ UNCHANGED <<historia, script, modo_prueba, downloads, carpetas, org_pc>>
    /\ UNCHANGED <<capVars, fnVars, watchVars>>

\* the loop body copying the file to ruta_destino and leaving it in Downloads
OrgMove_copia ==
    /\ org_pc = "loop"
    /\ ~modo_prueba
    /\ \E item \in items :
        /\ item \notin DOMAIN carpetas
        /\ LET categoria == categoria_de(item)
               carpeta == carpetas[categoria]
               destino == ruta_destino(carpeta, item)
           IN  /\ carpetas' =
                    [carpetas EXCEPT ![categoria] =
                        [n \in DOMAIN carpeta \cup {destino} |->
                            IF n = destino THEN downloads.files[item]
                            ELSE carpeta[n]]]
               /\ downloads' = downloads
               /\ contadores' = Contado(categoria)
        /\ items' = items \ {item}
    /\ UNCHANGED <<historia, script, modo_prueba, org_pc>>
    /\ UNCHANGED <<capVars, fnVars, watchVars>>

\* the loop body on a file: shutil.move(ruta_completa, ruta_destino)
OrgMove ==
    /\ org_pc = "loop"
    /\ ~modo_prueba
    /\ \E item \in items :
        /\ item \notin DOMAIN carpetas
        /\ LET categoria == categoria_de(item)
               carpeta == carpetas[categoria]
               destino == ruta_destino(carpeta, item)
           IN  /\ carpetas' =
                    [carpetas EXCEPT ![categoria] =
                        [n \in DOMAIN carpeta \cup {destino} |->
                            IF n = destino THEN downloads.files[item]
                            ELSE carpeta[n]]]
               /\ downloads' =
                    [downloads EXCEPT !.files =
                        [n \in DOMAIN downloads.files \ {item} |->
                            downloads.files[n]]]
               /\ contadores' = Contado(categoria)
        /\ items' = items \ {item}
    /\ UNCHANGED <<historia, script, modo_prueba, org_pc>>
    /\ UNCHANGED <<capVars, fnVars, watchVars>>

\* shutil.move raises and nothing catches it: the call ends there
OrgMoveFails_uncaught ==
    /\ org_pc = "loop"
    /\ ~modo_prueba
    /\ \E item \in items :
        /\ item \notin DOMAIN carpetas
        /\ items' = items \ {item}
        /\ historia' = [historia EXCEPT !.fallidos = @ \cup {item}]
    /\ org_pc' = "raised"
    /\ UNCHANGED <<script, modo_prueba, downloads, carpetas, contadores>>
    /\ UNCHANGED <<capVars, fnVars, watchVars>>

\* the loop body on a file: shutil.move raises, the error is printed
OrgMoveFails ==
    /\ org_pc = "loop"
    /\ ~modo_prueba
    /\ \E item \in items :
        /\ item \notin DOMAIN carpetas
        /\ items' = items \ {item}
        /\ historia' = [historia EXCEPT !.fallidos = @ \cup {item}]
    /\ UNCHANGED <<script, modo_prueba, downloads, carpetas, contadores,
                   org_pc>>
    /\ UNCHANGED <<capVars, fnVars, watchVars>>

\* the runs of the script explored
MaxCorridas == 2

\* the script is started again on Downloads as the run before left it
OrgRunAgain ==
    /\ org_pc = "done"
    /\ downloads.exists
    /\ historia.corrida < MaxCorridas
    /\ modo_prueba' \in BOOLEAN
    /\ items' = {}
    /\ contadores' = EmptyTable
    /\ org_pc' = "start"
    /\ historia' = [corrida |-> historia.corrida + 1, listada |-> FALSE,
                    fallidos |-> {},
                    tras_real |-> /\ ~modo_prueba
                                  /\ historia.listada
                                  /\ historia.fallidos = {}]
    /\ UNCHANGED <<script, downloads, carpetas>>
    /\ UNCHANGED <<capVars, fnVars, watchVars>>

\* the loop is over: the summary
OrgEnd ==
    /\ org_pc = "loop"
    /\ items = {}
    /\ org_pc' = "done"
    /\ UNCHANGED <<historia, script, modo_prueba, downloads, carpetas, items,
                   contadores>>
    /\ UNCHANGED <<capVars, fnVars, watchVars>>

NextOrg ==
    \/ OrgNoDir
    \/ OrgMakedirsFails
    \/ OrgList
    \/ OrgListDenied
    \/ OrgSkipDir
    \/ OrgShow
    \/ OrgMove
    \/ OrgMoveFails
    \/ OrgEnd
    \/ OrgRunAgain

SpecOrg == InitOrg /\ [][NextOrg]_vars

-----------------------------------------------------------------------------
(* C6 *)

\* shutil.move has just moved item out of Downloads
Moved(item) ==
    /\ org_pc = "loop"
    /\ item \in DOMAIN downloads.files
    /\ item \notin DOMAIN downloads'.files

\* base_k+ext of item
Renamed(item, k) ==
    splitext(item)[1] \o "_" \o str_int(k) \o splitext(item)[2]

\* C6: when a file is moved, every entry the category folders held is still
\* there with its content, and exactly one entry is added, to one folder,
\* with the content of the file; when that folder held the name of the file,
\* the entry is named base_k+ext for the smallest k >= 1 whose name the
\* folder did not hold.
C6_SmallestFreeSuffix ==
    [][\A item \in SourceNames :
        Moved(item) =>
            /\ \A c \in DOMAIN carpetas : \A n \in DOMAIN carpetas[c] :
                /\ n \in DOMAIN carpetas'[c]
                /\ carpetas'[c][n] = carpetas[c][n]
            /\ \E c \in DOMAIN carpetas :
                /\ \A d \in DOMAIN carpetas \ {c} : carpetas'[d] = carpetas[d]
                /\ \E n \in DOMAIN carpetas'[c] \ DOMAIN carpetas[c] :
                    /\ DOMAIN carpetas'[c] = DOMAIN carpetas[c] \cup {n}
                    /\ carpetas'[c][n] = downloads.files[item]
                    /\ IF item \in DOMAIN carpetas[c]
                       THEN \E k \in 1..(Cardinality(DOMAIN carpetas[c]) + 1) :
                                /\ n = Renamed(item, k)
                                /\ \A j \in 1..(k - 1) :
                                    Renamed(item, j) \in DOMAIN carpetas[c]
                       ELSE n = item]_vars

\* Documentos held x.txt and x_1.txt, and x.txt of Downloads is now x_2.txt
C6_Witness ==
    /\ org_pc \in {"loop", "done"}
    /\ "Documentos" \in DOMAIN carpetas
    /\ {"x.txt", "x_1.txt", "x_2.txt"} \subseteq DOMAIN carpetas["Documentos"]
    /\ carpetas["Documentos"]["x.txt"] = Old
    /\ carpetas["Documentos"]["x_1.txt"] = Old
    /\ carpetas["Documentos"]["x_2.txt"] = FromDownloads("x.txt")
-----------------------------------------------------------------------------
(* C11 *)

\* the loop body has just been run on item, a file
Visited(item) ==
    /\ org_pc = "loop"
    /\ item \in items
    /\ item \notin items'
    /\ item \notin DOMAIN carpetas

\* no file is moved: Downloads holds the files it held, and no folder has
\* gained, lost or changed an entry
NothingMoved ==
    /\ downloads' = downloads
    /\ \A c \in DOMAIN carpetas' :
        carpetas'[c] = IF c \in DOMAIN carpetas THEN carpetas[c] ELSE EmptyTable
    /\ DOMAIN carpetas \subseteq DOMAIN carpetas'

\* the three errors the call handles: a missing directory and a listing that
\* is denied end it with no file moved; a file whose move fails stays in
\* Downloads, is not counted, and the loop goes on to the last entry
HandledErrors ==
    /\ [][(org_pc = "start" /\ ~downloads.exists)
            => (org_pc' = "done" /\ NothingMoved)]_vars
    /\ [][(org_pc = "start" /\ org_pc' = "done") => NothingMoved]_vars
    /\ [][\A item \in SourceNames :
            (Visited(item) /\ ~modo_prueba /\ item \in DOMAIN downloads'.files)
            => (/\ downloads' = downloads
                /\ contadores' = contadores
                /\ org_pc' = "loop")]_vars
    /\ [][(org_pc = "loop" /\ org_pc' # "loop")
            => (items = {} /\ org_pc' = "done")]_vars

\* C11 as stated: organizar_archivos never fails on an error, and handles
\* the three errors: a missing directory, a listing that is denied, a move
\* that fails.
C11_NeverFails ==
    /\ HandledErrors
    /\ [][org_pc' # "raised"]_vars

\* C11 as amended: the three errors are handled as stated; the call ends
\* with an exception only when crear_carpetas cannot make a category folder
\* that is missing, and then no file has been moved.
C11_FailsOnlyMakingFolders ==
    /\ HandledErrors
    /\ [][(org_pc' = "raised" /\ org_pc # "raised")
            => (/\ org_pc = "start"
                /\ downloads.exists
                /\ ~(categorias \subseteq DOMAIN carpetas)
                /\ NothingMoved)]_vars

\* a move has failed (x.txt is still in Downloads, uncounted), the file
\* listed with it was moved after that, and the call has ended
C11_Witness ==
    /\ org_pc = "done"
    /\ ~modo_prueba
    /\ downloads.exists
    /\ DOMAIN downloads.files = {"x.txt"}
    /\ DOMAIN contadores = categorias
    /\ archivos_procesados = 1
    /\ contadores["Imagenes"] = 1

-----------------------------------------------------------------------------
(* C16 *)

\* C16: with modo_prueba=True no step of organizar_archivos changes the
\* files of Downloads, the category folders or their entries.
C16_DryRunChangesNothing ==
    [][modo_prueba => (downloads' = downloads /\ carpetas' = carpetas)]_vars
-----------------------------------------------------------------------------
(* C15 *)

\* save_processed_files has just returned
SaveStep == pc = "save" /\ pc' = "report"

\* the table a processor made now would load from the store
StoredTable == load_processed_files

\* C15: no step of a run removes a record from the table in memory or
\* changes the record of a name other than by mark_file_as_processed of
\* that name, and no save removes a record from the store: the names
\* recorded only grow, whatever happens to the images.
C15_RecordsNeverRemoved ==
    /\ [][(pc # "ready" \/ pc' # "ready")
            => \A f \in DOMAIN processed_files :
                /\ f \in DOMAIN processed_files'
                /\ processed_files'[f] # processed_files[f] => MarkStepOf(f)]_vars
    /\ [][SaveStep => DOMAIN StoredTable \subseteq DOMAIN StoredTable']_vars

-----------------------------------------------------------------------------
(* C17 *)

\* a run has just started or returned at once
StartStep == pc = "ready" /\ outcome' # outcome

\* C17: the first run after clear_cache removed the store, whichever
\* processor makes it, takes every image of input/ as new and skips none.
C17_RunAfterClearCacheSkipsNone ==
    [][(StartStep /\ cleared /\ PresentImages # {})
        => (/\ pc' = "ocr"
            /\ Range(new_files') = PresentImages)]_vars

-----------------------------------------------------------------------------
(* C18 *)

\* what a run records for f when it reads the content f has now
RecordOfContent(f) ==
    LET text == extract_text_from_image(f)
    IN  [text |-> IF Truthy(text) THEN text ELSE "",
         urls |-> UrlsOf[text],
         category |-> CategoryOf[text]]

\* C18: whenever is_file_processed(f) is true, the text, the URLs and the
\* category of the record of f are those of the content f has, also when f
\* was rewritten during the run that recorded it.
C18_RecordIsOfCurrentContent ==
    \A f \in Names :
        (exists(f) /\ is_file_processed(f))
        => /\ processed_files[f].text = RecordOfContent(f).text
           /\ processed_files[f].urls = RecordOfContent(f).urls
           /\ processed_files[f].category = RecordOfContent(f).category

-----------------------------------------------------------------------------
(* C19 *)

\* C19: when the report is generated, every image listed satisfies
\* is_file_processed, so no entry comes from the branch that runs the OCR
\* again.
C19_ReportOnlyFromRecords ==
    [][ReportStep => \A f \in PresentImages : is_file_processed(f)]_vars

-----------------------------------------------------------------------------
(* C20 *)

\* the environment has just changed the store
EnvStoreStep == store' # store /\ envLeft' # envLeft

\* C20: a run writes the store in one step only, save_processed_files, which
\* it reaches once, after the last new image was marked, and which is
\* followed by the report; a run that returns at once or is interrupted in
\* the loop leaves the store as it was.
C20_StoreWrittenOnceAfterMarks ==
    /\ [][(store' # store /\ ~EnvStoreStep) => SaveStep]_vars
    /\ [][(pc' = "save" /\ pc # "save")
            => (/\ pc = "mark"
                /\ idx = Len(new_files)
                /\ \A i \in 1..Len(new_files) :
                    new_files[i] \in DOMAIN processed_files')]_vars
    /\ [][(pc = "save" /\ pc' # "save") => pc' = "report"]_vars
    /\ [][(pc' = "report" /\ pc # "report") => pc = "save"]_vars
    /\ [][(pc' = "ocr" /\ pc # "ocr") => pc \in {"ready", "mark"}]_vars
    /\ [][report' # report => (pc = "report" /\ pc' = "ready")]_vars

\* two new images were marked, the store was then written with both records,
\* and the report is not yet written
C20_Witness ==
    /\ pc = "report"
    /\ Len(new_files) = 2
    /\ store = StoreOf(processed_files)
    /\ DOMAIN processed_files = {"a.png", "b.jpg"}
    /\ report = NoReport
-----------------------------------------------------------------------------
(* The folder monitors: watch_folder.py and auto_monitor.py *)

\* The run of the capture processor that a monitor starts is one step here;
\* what it does is the specification Spec.

\* ImageFileHandler.debounce_seconds, and the literal 2 of ImageWatcher
debounce_seconds == 2

\* time.sleep(1) before the run
settle_seconds == 1

\* poll_interval of FolderMonitor.start, interval of watch_with_polling
poll_interval == 5

\* seconds of event mode explored, polls explored
MaxTicks == 4
MaxPolls == 2

\* the threads that deliver events to one handler: two, so that callbacks
\* can overlap
Callbacks == {1, 2}

\* time.time() when the monitor starts: far more than the window after 0
StartTime == debounce_seconds + 1

LastTime ==
    StartTime + (IF mode = "polling" THEN poll_interval * MaxPolls
                 ELSE MaxTicks)

IdleCallback ==
    [pc |-> "idle", kind |-> "none", arrived |-> 0, current_time |-> 0,
     wake |-> 0, midrun |-> FALSE, alone |-> TRUE]

\* the callback of thread t is between processing = True and the finally
InProgress(t) == cb[t].pc \in {"stamp_run", "settle", "run"}

\* a thread not delivering an event; threads are taken in order
FreeThread(t) ==
    /\ cb[t].pc = "idle"
    /\ \A u \in Callbacks : u < t => cb[u].pc # "idle"

InitWatch ==
    /\ watcher \in {"watch_folder", "auto_monitor"}
    /\ mode \in {"event", "polling"}
    /\ now = StartTime
    /\ processing = FALSE
    /\ last_process_time = 0
    /\ last_event_time = 0
    /\ cb = [t \in Callbacks |-> IdleCallback]
    /\ last_trigger = 0
    /\ input_files \in (IF mode = "polling"
                        THEN {[f \in ns |-> 0] : ns \in SUBSET Names}
                        ELSE {EmptyTable})
    /\ last_files = DOMAIN input_files
    /\ poll = IF mode = "polling"
              THEN [pc |-> "sleep", wake |-> now + poll_interval,
                    current_files |-> {}]
              ELSE NoPoll
    /\ CapIdle
    /\ FnIdle
    /\ OrgIdle

\* the clock
Tick ==
    /\ now < LastTime
    /\ now' = now + 1
    /\ UNCHANGED <<watcher, mode, processing, last_process_time,
                   last_event_time, cb, last_trigger, input_files,
                   last_files, poll>>
    /\ UNCHANGED <<capVars, fnVars, orgVars>>

\* the callbacks once an event is delivered now in thread t; midrun and
\* alone record whether a run, or any other callback, was in progress
Delivered(t, kind, first) ==
    [u \in Callbacks |->
        IF u = t
        THEN [pc |-> first, kind |-> kind, arrived |-> now,
              current_time |-> IF first = "debounce" THEN now ELSE 0,
              wake |-> 0,
              midrun |-> \E v \in Callbacks \ {t} : InProgress(v),
              alone |-> \A v \in Callbacks \ {t} : cb[v].pc = "idle"]
        ELSE [cb[u] EXCEPT !.alone = (cb[u].pc = "idle")]]

\* on_created: trigger_processing reads the time; ImageWatcher calls process
on_created(t) ==
    /\ mode = "event"
    /\ FreeThread(t)
    /\ cb' = Delivered(t, "created",
                       IF watcher = "watch_folder" THEN "debounce"
                       ELSE "guard")
    /\ UNCHANGED <<watcher, mode, now, processing, last_process_time,
                   last_event_time, last_trigger, input_files, last_files,
                   poll>>
    /\ UNCHANGED <<capVars, fnVars, orgVars>>

\* on_modified: both handlers read the time
on_modified(t) ==
    /\ mode = "event"
    /\ FreeThread(t)
    /\ cb' = Delivered(t, "modified", "debounce")
    /\ UNCHANGED <<watcher, mode, now, processing, last_process_time,
                   last_event_time, last_trigger, input_files, last_files,
                   poll>>
    /\ UNCHANGED <<capVars, fnVars, orgVars>>

\* the position after a step of the callback; entering "settle" starts the
\* sleep and makes the event the trigger of a run
Goto(t, to) ==
    /\ cb' = [cb EXCEPT ![t] =
                IF to = "idle" THEN IdleCallback
                ELSE [@ EXCEPT !.pc = to,
                               !.wake = IF to = "settle"
                                        THEN now + settle_seconds ELSE @]]
    /\ last_trigger' = IF to = "settle" THEN cb[t].arrived ELSE last_trigger

\* the debounce test: watch_folder.py line 83, auto_monitor.py line 40
Debounce(t) ==
    /\ cb[t].pc = "debounce"
    /\ IF watcher = "watch_folder"
       THEN IF cb[t].current_time - last_process_time < debounce_seconds
            THEN Goto(t, "idle")
            ELSE Goto(t, "guard")
       ELSE IF cb[t].current_time - last_event_time > debounce_seconds
            THEN Goto(t, "stamp")
            ELSE Goto(t, "idle")
    /\ UNCHANGED <<watcher, mode, now, processing, last_process_time,
                   last_event_time, input_files, last_files, poll>>
    /\ UNCHANGED <<capVars, fnVars, orgVars>>

\* auto_monitor.py line 41: self.last_event_time = current_time
StampEvent(t) ==
    /\ cb[t].pc = "stamp"
    /\ last_event_time' = cb[t].current_time
    /\ Goto(t, "guard")
    /\ UNCHANGED <<watcher, mode, now, processing, last_process_time,
                   input_files, last_files, poll>>
    /\ UNCHANGED <<capVars, fnVars, orgVars>>

\* if self.processing: return
Guard(t) ==
    /\ cb[t].pc = "guard"
    /\ IF processing THEN Goto(t, "idle") ELSE Goto(t, "set")
    /\ UNCHANGED <<watcher, mode, now, processing, last_process_time,
                   last_event_time, input_files, last_files, poll>>
    /\ UNCHANGED <<capVars, fnVars, orgVars>>

\* self.processing = True
SetProcessing(t) ==
    /\ cb[t].pc = "set"
    /\ processing' = TRUE
    /\ Goto(t, IF watcher = "watch_folder" THEN "stamp_run" ELSE "settle")
    /\ UNCHANGED <<watcher, mode, now, last_process_time, last_event_time,
                   input_files, last_files, poll>>
    /\ UNCHANGED <<capVars, fnVars, orgVars>>

\* watch_folder.py line 90: self.last_process_time = current_time
StampProcess(t) ==
    /\ cb[t].pc = "stamp_run"
    /\ last_process_time' = cb[t].current_time
    /\ Goto(t, "settle")
    /\ UNCHANGED <<watcher, mode, now, processing, last_event_time,
                   input_files, last_files, poll>>
    /\ UNCHANGED <<capVars, fnVars, orgVars>>

\* time.sleep(1) returns and the run of the capture processor starts
Settle(t) ==
    /\ cb[t].pc = "settle"
    /\ now >= cb[t].wake
    /\ Goto(t, "run")
    /\ UNCHANGED <<watcher, mode, now, processing, last_process_time,
                   last_event_time, input_files, last_files, poll>>
    /\ UNCHANGED <<capVars, fnVars, orgVars>>

\* the flag cleared after the run instead of in a finally: a run that
\* raises leaves it set
Finally_unless_raised(t) ==
    /\ cb[t].pc = "run"
    /\ processing' \in {processing, FALSE}
    /\ Goto(t, "idle")
    /\ UNCHANGED <<watcher, mode, now, last_process_time, last_event_time,
                   input_files, last_files, poll>>
    /\ UNCHANGED <<capVars, fnVars, orgVars>>

\* the run returns, ends with a nonzero exit code or raises: in each case
\* the finally clause runs, self.processing = False
Finally(t) ==
    /\ cb[t].pc = "run"
    /\ processing' = FALSE
    /\ Goto(t, "idle")
    /\ UNCHANGED <<watcher, mode, now, last_process_time, last_event_time,
                   input_files, last_files, poll>>
    /\ UNCHANGED <<capVars, fnVars, orgVars>>

\* an image is copied into input/ while the polling loop runs
AddImage ==
    /\ mode = "polling"
    /\ \E f \in Names \ DOMAIN input_files, m \in Mtimes :
            input_files' = [g \in DOMAIN input_files \cup {f} |->
                                IF g = f THEN m ELSE input_files[g]]
    /\ UNCHANGED <<watcher, mode, now, processing, last_process_time,
                   last_event_time, cb, last_trigger, last_files, poll>>
    /\ UNCHANGED <<capVars, fnVars, orgVars>>

\* an image is removed from input/ while the polling loop runs
RemoveImage ==
    /\ mode = "polling"
    /\ \E f \in DOMAIN input_files :
            input_files' = [g \in DOMAIN input_files \ {f} |-> input_files[g]]
    /\ UNCHANGED <<watcher, mode, now, processing, last_process_time,
                   last_event_time, cb, last_trigger, last_files, poll>>
    /\ UNCHANGED <<capVars, fnVars, orgVars>>

\* an image of input/ is written again while the polling loop runs
TouchImage ==
    /\ mode = "polling"
    /\ \E f \in DOMAIN input_files :
        \E m \in Mtimes \ {input_files[f]} :
            input_files' = [input_files EXCEPT ![f] = m]
    /\ UNCHANGED <<watcher, mode, now, processing, last_process_time,
                   last_event_time, cb, last_trigger, last_files, poll>>
    /\ UNCHANGED <<capVars, fnVars, orgVars>>

\* the paths that the listing of input/ returns; a path carries no mtime
ListedPaths == DOMAIN input_files

\* the polling loop starting a run whenever the listing differs from
\* last_files
PollScan_any_change ==
    /\ poll.pc = "sleep"
    /\ now >= poll.wake
    /\ LET current_files == ListedPaths
       IN  poll' = IF current_files # last_files
                   THEN [pc |-> "run", wake |-> 0,
                         current_files |-> current_files]
                   ELSE [pc |-> "sleep", wake |-> now + poll_interval,
                         current_files |-> {}]
    /\ UNCHANGED <<watcher, mode, now, processing, last_process_time,
                   last_event_time, cb, last_trigger, input_files,
                   last_files>>
    /\ UNCHANGED <<capVars, fnVars, orgVars>>

\* the polling loop wakes, lists input/ and, with new files, starts the run
PollScan ==
    /\ poll.pc = "sleep"
    /\ now >= poll.wake
    /\ LET current_files == ListedPaths
           new_images == current_files \ last_files
       IN  poll' = IF new_images # {}
                   THEN [pc |-> "run", wake |-> 0,
                         current_files |-> current_files]
                   ELSE [pc |-> "sleep", wake |-> now + poll_interval,
                         current_files |-> {}]
    /\ UNCHANGED <<watcher, mode, now, processing, last_process_time,
                   last_event_time, cb, last_trigger, input_files,
                   last_files>>
    /\ UNCHANGED <<capVars, fnVars, orgVars>>

\* the run returns: last_files = current_files, and the loop sleeps again
PollDone ==
    /\ poll.pc = "run"
    /\ last_files' = poll.current_files
    /\ poll' = [pc |-> "sleep", wake |-> now + poll_interval,
                current_files |-> {}]
    /\ UNCHANGED <<watcher, mode, now, processing, last_process_time,
                   last_event_time, cb, last_trigger, input_files>>
    /\ UNCHANGED <<capVars, fnVars, orgVars>>

\* start_polling catches KeyboardInterrupt only: a run that raises ends the
\* monitor; watch_with_polling runs a subprocess, which does not raise
PollRaises ==
    /\ poll.pc = "run"
    /\ watcher = "watch_folder"
    /\ poll' = [pc |-> "stopped", wake |-> 0, current_files |-> {}]
    /\ UNCHANGED <<watcher, mode, now, processing, last_process_time,
                   last_event_time, cb, last_trigger, input_files,
                   last_files>>
    /\ UNCHANGED <<capVars, fnVars, orgVars>>

NextWatch ==
    \/ Tick
    \/ \E t \in Callbacks : on_created(t)
    \/ \E t \in Callbacks : on_modified(t)
    \/ \E t \in Callbacks : Debounce(t)
    \/ \E t \in Callbacks : StampEvent(t)
    \/ \E t \in Callbacks : Guard(t)
    \/ \E t \in Callbacks : SetProcessing(t)
    \/ \E t \in Callbacks : StampProcess(t)
    \/ \E t \in Callbacks : Settle(t)
    \/ \E t \in Callbacks : Finally(t)
    \/ AddImage
    \/ RemoveImage
    \/ TouchImage
    \/ PollScan
    \/ PollDone
    \/ PollRaises

SpecWatch == InitWatch /\ [][NextWatch]_vars

-----------------------------------------------------------------------------
(* C12 *)

\* the callback of thread t has just set out on a run
Triggers(t) == cb[t].pc # "settle" /\ cb'[t].pc = "settle"

\* C12: at most one callback of a handler is between processing = True and
\* the finally, and an event delivered while another callback is there
\* starts no run, then or later; also with callbacks in several threads.
C12_OneRunAtATime ==
    /\ [](Cardinality({t \in Callbacks : InProgress(t)}) <= 1)
    /\ [][\A t \in Callbacks : Triggers(t) => ~cb[t].midrun]_vars

-----------------------------------------------------------------------------
(* C13 *)

\* C13: in both monitors an event, created or modified, delivered less than
\* debounce_seconds after the event that last started a run starts no run;
\* stated for events delivered while no other callback is in progress.
C13_EventsInWindowCoalesced ==
    [][\A t \in Callbacks :
        (Triggers(t) /\ cb[t].alone)
        => cb[t].arrived - last_trigger >= debounce_seconds]_vars

-----------------------------------------------------------------------------
(* C14 *)

\* a run of the capture processor starts, from the change detected at
\* time detected
EventRunStarts(t) == cb[t].pc # "run" /\ cb'[t].pc = "run"
PollRunStarts == poll.pc # "run" /\ poll'.pc = "run"

\* C14: in event mode and in polling mode, a run starts settle_seconds or
\* more after the change was detected: the event delivered, the new file
\* found by the scan.
C14_RunAfterSettleDelay ==
    /\ [][\A t \in Callbacks :
            EventRunStarts(t) => now' >= cb[t].arrived + settle_seconds]_vars
    /\ [][PollRunStarts => now' >= now + settle_seconds]_vars
-----------------------------------------------------------------------------
(* C21 *)

\* the polling loop has just woken and listed input/
PollScans == poll.pc = "sleep" /\ poll' # poll

\* C21: a poll starts a run exactly when the listing holds a path that is
\* not in last_files, whatever was removed or written again; last_files
\* changes only when the run that a poll started returns, to the listing of
\* that poll; a removal or a new mtime alone changes neither.
C21_PollRunsOnNewPathsOnly ==
    /\ [][PollScans
            => (poll'.pc = "run" <=> ListedPaths \ last_files # {})]_vars
    /\ [][PollRunStarts => PollScans]_vars
    /\ [][last_files' # last_files
            => (poll.pc = "run" /\ last_files' = poll.current_files)]_vars
    /\ [][input_files' # input_files
            => (last_files' = last_files /\ poll' = poll)]_vars

\* a poll has found no new path although one known image is gone and the
\* other has a new mtime: no run, and last_files still holds both
C21_Witness ==
    /\ mode = "polling"
    /\ poll.pc = "sleep"
    /\ poll.wake > StartTime + poll_interval
    /\ last_files = {"a.png", "b.jpg"}
    /\ DOMAIN input_files = {"b.jpg"}
    /\ input_files["b.jpg"] # 0
-----------------------------------------------------------------------------
(* C22 *)

\* C22: a name that is_image_file or is_image accepts, the suffix compared
\* without regard to case, is a name that get_image_files returns.
C22_AcceptedImagesAreListed ==
    (fn_in.op = "image" /\ fn_out.listed # NotRun)
    => /\ fn_out.is_image_file = "True" => fn_out.listed = "True"
       /\ fn_out.is_image = "True" => fn_out.listed = "True"
-----------------------------------------------------------------------------
(* C23 *)

\* the sum of the per-category counts of a report
RECURSIVE SumOfCounts(_, _)
SumOfCounts(r, cs) ==
    IF cs = {} THEN 0
    ELSE LET c == CHOOSE x \in cs : TRUE
         IN  Len(r.buckets[c]) + SumOfCounts(r, cs \ {c})

\* C23: every report a run writes lists exactly the images then in input/,
\* each once and so under one category, none of a file that is gone, and
\* its header total is the sum of its per-category counts.
C23_ReportListsPresentImagesOnce ==
    [][ReportStep
        => /\ ListsPresentImages(report')
           /\ report'.total = SumOfCounts(report', DOMAIN report'.buckets)]_vars
-----------------------------------------------------------------------------
(* C24 *)

\* the loop of a real run has ended and no move of the run failed
RealRunEnds ==
    /\ org_pc = "loop"
    /\ org_pc' = "done"
    /\ ~modo_prueba
    /\ historia.fallidos = {}

\* the files Downloads and the category folders hold, counted
FileCount ==
    Cardinality(DOMAIN downloads.files)
        + Cardinality(UNION {{<<c, e>> : e \in DOMAIN carpetas[c]} :
                                c \in DOMAIN carpetas})

\* the category of the extension of each file of Downloads, tabulated
CategoriaEsperada ==
    [n \in SourceNames |-> ExpectedCategoria(CATEGORIAS, splitext(n)[2])]

\* the folders that hold the file that was n in Downloads
FoldersHolding(n) ==
    {c \in DOMAIN carpetas :
        \E e \in DOMAIN carpetas[c] : carpetas[c][e] = FromDownloads(n)}

\* C24: when the loop of a real run ends and no move has failed, no file is
\* left directly in Downloads; a file that was there is in the folder of
\* the category of its extension and in no other; the entries the folders
\* held are kept and the number of files never changes; and a real run made
\* on the result moves nothing.
C24_RealRunSortsEveryFile ==
    /\ [][RealRunEnds => DOMAIN downloads.files = {}]_vars
    /\ [](\A n \in SourceNames :
            IF downloads.exists /\ n \in DOMAIN downloads.files
            THEN FoldersHolding(n) = {}
            ELSE FoldersHolding(n) \subseteq {CategoriaEsperada[n]})
    /\ [][/\ FileCount' = FileCount
          /\ \A c \in DOMAIN carpetas : \A e \in DOMAIN carpetas[c] :
                /\ c \in DOMAIN carpetas'
                /\ e \in DOMAIN carpetas'[c]
                /\ carpetas'[c][e] = carpetas[c][e]]_vars
    /\ [][historia.tras_real
            => (downloads' = downloads /\ carpetas' = carpetas)]_vars

\* a real run has moved x.txt and y.PNG to their folders, and a second real
\* run has ended on the result
C24_Witness ==
    /\ org_pc = "done"
    /\ historia.corrida = 2
    /\ historia.tras_real
    /\ historia.listada
    /\ ~modo_prueba
    /\ DOMAIN downloads.files = {}
    /\ FoldersHolding("x.txt") = {"Documentos"}
    /\ FoldersHolding("y.PNG") = {"Imagenes"}
-----------------------------------------------------------------------------
(* C25 *)

\* the run that the callback of thread t started has just ended
RunOver(t) == cb[t].pc = "run" /\ cb'[t].pc # "run"

\* the callback of thread t has just tested the flag
Tested(t) == cb[t].pc = "guard" /\ cb'[t].pc # "guard"

\* C25: when a run started by a handler ends, however it ends, the flag is
\* false; it is false whenever no callback is between setting it and its
\* finally; so an event that has passed the debounce test while no run is in
\* progress is never turned away by the flag.
C25_FlagClearedAfterRun ==
    /\ [][\A t \in Callbacks : RunOver(t) => ~processing']_vars
    /\ []((\A t \in Callbacks : ~InProgress(t)) => ~processing)
    /\ [][\A t \in Callbacks :
            (Tested(t) /\ \A u \in Callbacks : ~InProgress(u))
            => cb'[t].pc = "set"]_vars

\* in watch_folder a run started at StartTime has ended, and an event that
\* arrived after the window has passed both tests and set the flag again
C25_Witness ==
    /\ watcher = "watch_folder"
    /\ cb[1].pc = "stamp_run"
    /\ cb[2].pc = "idle"
    /\ processing
    /\ last_process_time = StartTime
    /\ cb[1].arrived >= StartTime + debounce_seconds

====
